---- MODULE Spec2Model ----
(* A model of the JSON-RPC 2.0 protocol stack of src/src/index.ts (class   *)
(* JSONRPC) and of the payload validation of src/unnamed/part_002          *)
(* (namespace Payload, imported by index.ts as './payload').               *)
(*                                                                         *)
(* One step of the model is one synchronous run of JavaScript between two  *)
(* suspension points: a public method up to its first await on a promise   *)
(* that is still pending, or the continuation that runs when such a        *)
(* promise settles.                                                        *)
EXTENDS Integers, Sequences, FiniteSets, TLC

(***************************************************************************)
(* Bounds of the model                                                     *)
(***************************************************************************)
MaxCalls == 2
MaxNotifies == 1
MaxReceives == 2
MaxRequests == 1   \* requests received in SpecRecover

(***************************************************************************)
(* JavaScript values.  A value is <<type, number, string>>: the type is    *)
(* what typeof / Array.isArray tell apart, the number is the value of a    *)
(* number (or the index of an array in a fixed table), the string the      *)
(* value of a string.                                                      *)
(***************************************************************************)
Undefined == <<"undefined", 0, "">>
Null == <<"null", 0, "">>
Num(n) == <<"number", n, "">>
Str(s) == <<"string", 0, s>>
Bool(n) == <<"boolean", n, "">>
Arr(n) == <<"array", n, "">>

TypeOf(v) == v[1]

(* The error member of a payload: absent, or an object {code, message, data} *)
NoErrorObject == [type |-> "undefined", code |-> Undefined, message |-> Undefined, data |-> Undefined]
ErrorObject(code, message, data) == [type |-> "object", code |-> code, message |-> message, data |-> data]

(* interface Payload: every member is optional, an absent member reads as undefined *)
MkPayload(jsonrpc, id, method, params, result, err) ==
    [jsonrpc |-> jsonrpc, id |-> id, method |-> method, params |-> params,
     result |-> result, error |-> err]

PayloadKeys == {"jsonrpc", "id", "method", "params", "result", "error"}

(***************************************************************************)
(* JSON.stringify and JSON.parse.  A text is either not JSON at all        *)
(* ([garbage |-> TRUE]) or the JSON object, a function from the keys       *)
(* that are written to their values: stringify leaves out every member     *)
(* whose value is undefined, also inside the error object.                 *)
(***************************************************************************)
Garbage == [garbage |-> TRUE]

StringifyError(e) ==
    IF e.data = Undefined
    THEN [code |-> e.code, message |-> e.message]
    ELSE [code |-> e.code, message |-> e.message, data |-> e.data]

Stringify(payload) ==
    LET present == {k \in PayloadKeys :
                        IF k = "error" THEN payload.error.type # "undefined"
                        ELSE payload[k] # Undefined}
    IN [k \in present |-> IF k = "error" THEN StringifyError(payload.error) ELSE payload[k]]

IsJSON(text) == "garbage" \notin DOMAIN text

ParseErrorObject(o) ==
    ErrorObject(IF "code" \in DOMAIN o THEN o.code ELSE Undefined,
                IF "message" \in DOMAIN o THEN o.message ELSE Undefined,
                IF "data" \in DOMAIN o THEN o.data ELSE Undefined)

Member(text, k) == IF k \in DOMAIN text THEN text[k] ELSE Undefined

Parse(text) ==
    MkPayload(Member(text, "jsonrpc"), Member(text, "id"), Member(text, "method"),
              Member(text, "params"), Member(text, "result"),
              IF "error" \in DOMAIN text THEN ParseErrorObject(text.error) ELSE NoErrorObject)

(***************************************************************************)
(* Payload.validate: the first failing rule of the scheme, "" when none    *)
(***************************************************************************)
(* a scheme that does not look at the protocol tag *)
RuleJsonrpcAny(v) == ""

RuleJsonrpc(v) == IF v = Str("2.0") THEN "" ELSE "expected '2.0'"

RuleId(v) ==
    IF v = Null THEN ""
    ELSE IF v = Undefined THEN ""
    ELSE IF TypeOf(v) \in {"number", "string"} THEN "" ELSE "expected number or string"

(* a method rule that accepts every string, the empty one included *)
RuleRequestMethodAnyString(v) ==
    IF v = Undefined THEN ""
    ELSE IF TypeOf(v) = "string" THEN "" ELSE "expected string"

RuleRequestMethod(v) ==
    IF v = Undefined THEN ""
    ELSE IF TypeOf(v) = "string" /\ Len(v[3]) > 0 THEN "" ELSE "expected string"

RuleRequestParams(v) == IF TypeOf(v) = "array" THEN "" ELSE "expected array"

RuleResponseError(e) ==
    IF e.type = "undefined" THEN ""
    ELSE IF TypeOf(e.code) # "number" THEN "expected number"
    ELSE IF TypeOf(e.message) # "string" THEN "expected string"
    ELSE ""

FirstFailure(reasons) ==
    LET bad == {i \in DOMAIN reasons : reasons[i] # ""}
    IN IF bad = {} THEN "" ELSE reasons[CHOOSE i \in bad : \A j \in bad : i <= j]

validate(payload, isRequest) ==
    IF isRequest
    THEN FirstFailure(<<RuleJsonrpc(payload.jsonrpc), RuleId(payload.id),
                        RuleRequestMethod(payload.method), RuleRequestParams(payload.params)>>)
    ELSE FirstFailure(<<RuleJsonrpc(payload.jsonrpc), RuleId(payload.id),
                        RuleResponseError(payload.error)>>)

(***************************************************************************)
(* Errors.  class is "JSONRPC.Error" for the structured error of the       *)
(* namespace, "Error" for any other exception, "null" for no error.        *)
(***************************************************************************)
NoError == [class |-> "null", code |-> 0, message |-> "", data |-> Undefined]
PlainError(message) == [class |-> "Error", code |-> 0, message |-> message, data |-> Undefined]
RpcError(message, code, data) == [class |-> "JSONRPC.Error", code |-> code, message |-> message, data |-> data]

parseError(reason) == RpcError("Parse error: " \o reason, -32700, Undefined)
invalidRequest(reason) == RpcError("Invalid request: " \o reason, -32600, Undefined)
methodNotFoundAsInvalid == RpcError("Method not found", -32600, Undefined)
methodNotFound == RpcError("Method not found", -32601, Undefined)
internalError(reason) == RpcError("Internal error: " \o reason, -32603, Undefined)

asPayload(err, id) ==
    MkPayload(Str("2.0"), id, Undefined, Undefined, Undefined,
              ErrorObject(Num(err.code), Str(err.message), err.data))

(***************************************************************************)
(* The values the environment supplies                                     *)
(***************************************************************************)
Methods == {Str("add")}
ParamLists == {Arr(0)}
ImplResults == {Num(5), Undefined}
ServerError == RpcError("Server error: bad", 1, Num(9))
ImplErrors == {ServerError, PlainError("oops")}
TransportError == PlainError("EPIPE")
Lost == PlainError("lost")
Closed == PlainError("closed")
PoisonErrors == {Lost, Closed}
InjectedIds == {Num(0), Num(1)}

NoHandler == [installed |-> FALSE, methods |-> {}]
Handlers == {[installed |-> TRUE, methods |-> {}], [installed |-> TRUE, methods |-> Methods]}

RequestText(id, method, params) ==
    Stringify(MkPayload(Str("2.0"), id, method, params, Undefined, NoErrorObject))
SuccessText(id, result) ==
    Stringify(MkPayload(Str("2.0"), id, Undefined, Undefined, result, NoErrorObject))
ErrorText(id, code, message) ==
    Stringify(MkPayload(Str("2.0"), id, Undefined, Undefined, Undefined,
                        ErrorObject(Num(code), Str(message), Undefined)))

RequestTexts ==
    {RequestText(id, Str("add"), Arr(0)) : id \in {Num(7), Null, Undefined}}
ReplyRequestTexts ==
    {RequestText(Num(0), Str("add"), Arr(0)), RequestText(Num(7), Str("add"), Undefined)}
ResponseTexts ==
    {SuccessText(Num(0), Num(5)), SuccessText(Num(1), Num(5)), ErrorText(Num(0), -5, "boom")}
NotifyResponseTexts ==
    {SuccessText(Num(0), Num(5)), SuccessText(Undefined, Num(5))}

(***************************************************************************)
(* State                                                                   *)
(***************************************************************************)
VARIABLES
    error,      \* _error: NoError for null
    ongoings,   \* _ongoings: identifier -> index in calls of the call whose resolve/reject it holds
    handler,    \* _handler
    generator,  \* "default" or "injected": the generateId argument of the constructor
    nextId,     \* nextId of the default generator
    calls,      \* the promises returned by call, in the order of the calls
    notifies,   \* the promises returned by notify
    receives    \* the invocations of receive and their promises

vars == <<error, ongoings, handler, generator, nextId, calls, notifies, receives>>

EmptyMap == [k \in {} |-> 0]

(* one invocation of the embedder's send function *)
Tx(payload, isRequest) == [text |-> Stringify(payload), isRequest |-> isRequest]

(* settling a promise: only the first resolve or reject has an effect *)
Resolve(p, value) ==
    IF p.state = "pending" THEN [p EXCEPT !.state = "resolved", !.value = value] ELSE p
Reject(p, err) ==
    IF p.state = "pending" THEN [p EXCEPT !.state = "rejected", !.err = err] ELSE p

NewPromise == [state |-> "pending", value |-> Undefined, err |-> NoError]

(* a wrapper that never tests _error *)
SendNeverRefused(err) == FALSE

(* the test of the _send wrapper: if (this._error) *)
SendRefused(err) == err # NoError

Init ==
    /\ error = NoError
    /\ ongoings = EmptyMap
    /\ handler = NoHandler
    /\ generator = "default"
    /\ nextId = 0
    /\ calls = <<>>
    /\ notifies = <<>>
    /\ receives = <<>>

(***************************************************************************)
(* call                                                                    *)
(***************************************************************************)
(* return ++nextId: the counter read after the increment *)
GenerateIdPreIncrement == IF generator = "default" THEN {Num(nextId + 1)} ELSE InjectedIds

GenerateId == IF generator = "default" THEN {Num(nextId)} ELSE InjectedIds

RequestPayload(id, method, params) ==
    MkPayload(Str("2.0"), id, method, params, Undefined, NoErrorObject)

(* the promise of a call right after call() has run: _send either refuses  *)
(* (and .catch(reject) rejects the call) or invokes the transport          *)
NewCall(id, payload) ==
    IF SendRefused(error)
    THEN [id |-> id, phase |-> "failed", out |-> <<>>] @@ Reject(NewPromise, error)
    ELSE [id |-> id, phase |-> "sending", out |-> <<Tx(payload, TRUE)>>] @@ NewPromise

call(method, params) ==
    /\ Len(calls) < MaxCalls
    /\ \E id \in GenerateId :
          calls' = Append(calls, NewCall(id, RequestPayload(id, method, params)))
    /\ nextId' = IF generator = "default" THEN nextId + 1 ELSE nextId
    /\ UNCHANGED <<error, ongoings, handler, generator, notifies, receives>>

(* the promise of the transport's send fulfils: .then registers the call *)
(* a table that keeps the entry it already has for the identifier *)
RegisterKeepsFirst(map, id, k) == IF id \in DOMAIN map THEN map ELSE (id :> k) @@ map

Register(map, id, k) == (id :> k) @@ map

callSendFulfilled(k) ==
    /\ calls[k].phase = "sending"
    /\ calls' = [calls EXCEPT ![k].phase = "sent"]
    /\ ongoings' = Register(ongoings, calls[k].id, k)
    /\ UNCHANGED <<error, handler, generator, nextId, notifies, receives>>

(* registration in a .finally: the call is registered although its send has failed *)
callSendRejectedRegisters(k) ==
    /\ calls[k].phase = "sending"
    /\ calls' = [calls EXCEPT ![k] = [Reject(@, TransportError) EXCEPT !.phase = "failed"]]
    /\ ongoings' = Register(ongoings, calls[k].id, k)
    /\ UNCHANGED <<error, handler, generator, nextId, notifies, receives>>

(* the promise of the transport's send rejects: .catch(reject) *)
callSendRejected(k) ==
    /\ calls[k].phase = "sending"
    /\ calls' = [calls EXCEPT ![k] = [Reject(@, TransportError) EXCEPT !.phase = "failed"]]
    /\ UNCHANGED <<error, ongoings, handler, generator, nextId, notifies, receives>>

(***************************************************************************)
(* notify                                                                  *)
(***************************************************************************)
(* a notification built like the payload of call, identifier included *)
NotifyPayloadWithId(method, params) ==
    MkPayload(Str("2.0"), Num(nextId), method, params, Undefined, NoErrorObject)

NotifyPayload(method, params) ==
    MkPayload(Str("2.0"), Undefined, method, params, Undefined, NoErrorObject)

NewNotify(payload) ==
    IF SendRefused(error)
    THEN [phase |-> "failed", out |-> <<>>] @@ Reject(NewPromise, error)
    ELSE [phase |-> "sending", out |-> <<Tx(payload, TRUE)>>] @@ NewPromise

notify(method, params) ==
    /\ Len(notifies) < MaxNotifies
    /\ notifies' = Append(notifies, NewNotify(NotifyPayload(method, params)))
    /\ UNCHANGED <<error, ongoings, handler, generator, nextId, calls, receives>>

notifySendFulfilled(k) ==
    /\ notifies[k].phase = "sending"
    /\ notifies' = [notifies EXCEPT ![k] = [Resolve(@, Undefined) EXCEPT !.phase = "sent"]]
    /\ UNCHANGED <<error, ongoings, handler, generator, nextId, calls, receives>>

notifySendRejected(k) ==
    /\ notifies[k].phase = "sending"
    /\ notifies' = [notifies EXCEPT ![k] = [Reject(@, TransportError) EXCEPT !.phase = "failed"]]
    /\ UNCHANGED <<error, ongoings, handler, generator, nextId, calls, receives>>

(***************************************************************************)
(* setError, serve                                                         *)
(***************************************************************************)
Range(f) == {f[x] : x \in DOMAIN f}

(* the table after setError(err) *)
Drained(map, err) == IF err # NoError THEN EmptyMap ELSE map

(* the first poisoning error kept when setError is called with another one *)
setErrorKeepsFirst(err) ==
    /\ error' = IF err # NoError /\ error # NoError THEN error ELSE err
    /\ ongoings' = Drained(ongoings, err)
    /\ calls' = IF err # NoError
                THEN [k \in DOMAIN calls |->
                        IF k \in Range(ongoings) THEN Reject(calls[k], err) ELSE calls[k]]
                ELSE calls
    /\ UNCHANGED <<handler, generator, nextId, notifies, receives>>

setError(err) ==
    /\ error' = err
    /\ ongoings' = Drained(ongoings, err)
    /\ calls' = IF err # NoError
                THEN [k \in DOMAIN calls |->
                        IF k \in Range(ongoings) THEN Reject(calls[k], err) ELSE calls[k]]
                ELSE calls
    /\ UNCHANGED <<handler, generator, nextId, notifies, receives>>

serve(h) ==
    /\ handler' = h
    /\ UNCHANGED <<error, ongoings, generator, nextId, calls, notifies, receives>>

(***************************************************************************)
(* receive                                                                 *)
(***************************************************************************)
NewReceive(text, isRequest) ==
    [text |-> text, isRequest |-> isRequest, phase |-> "done", out |-> <<>>,
     impl |-> FALSE, returned |-> Undefined, thrown |-> NoError] @@ NewPromise

(* the truthiness test if (payload.id) in place of the comparison with undefined and null *)
HasIdTruthy(id) == id \notin {Undefined, Null, Num(0), Str("")}

(* const hasId = payload.id !== undefined && payload.id !== null *)
HasId(id) == id # Undefined /\ id # Null

(* this._handler ? this._handler(payload.method!) : undefined *)
Impl(h, method) == h.installed /\ method \in h.methods

(* a success response that leaves out the identifier of the request *)
SuccessPayloadNoId(id, result) ==
    MkPayload(Str("2.0"), Undefined, Undefined, Undefined, result, NoErrorObject)

SuccessPayload(id, result) ==
    MkPayload(Str("2.0"), id, Undefined, Undefined, result, NoErrorObject)

(* every exception wrapped as an internal error, the instanceof test left out *)
FailurePayloadAlwaysInternal(err, id) == asPayload(internalError(err.message), id)

(* the payload sent for an exception of the method implementation *)
FailurePayload(err, id) ==
    IF err.class = "JSONRPC.Error" THEN asPayload(err, id)
    ELSE asPayload(internalError(err.message), id)

(* await this._send(payload, false) inside _handleRequest: refused by the  *)
(* wrapper, the rejection leaves _handleRequest and receive; otherwise the *)
(* transport is invoked and receive waits for its promise                  *)
Reply(r, payload) ==
    IF SendRefused(error)
    THEN [Reject(r, error) EXCEPT !.phase = "done"]
    ELSE [r EXCEPT !.phase = "send", !.out = Append(@, Tx(payload, FALSE))]

(* _handleRequest up to its first suspension *)
HandleRequest(r, payload) ==
    IF Impl(handler, payload.method)
    THEN [r EXCEPT !.impl = TRUE, !.phase = "impl"]
    ELSE IF HasId(payload.id)
         THEN Reply(r, asPayload(methodNotFound, payload.id))
         ELSE Reject(r, methodNotFound)

(* the error with which _handleResponse rejects, the value with which it resolves *)
ResponseError(payload) ==
    RpcError(payload.error.message[3], payload.error.code[2], payload.error.data)

(* _handleResponse resolving without the result, or never looking at payload.error *)
RespondDropsResult(c, payload) ==
    IF payload.error.type # "undefined"
    THEN Reject(c, ResponseError(payload))
    ELSE Resolve(c, Undefined)

RespondIgnoresError(c, payload) == Resolve(c, payload.result)

Respond(c, payload) ==
    IF payload.error.type # "undefined"
    THEN Reject(c, ResponseError(payload))
    ELSE Resolve(c, payload.result)

(* the entry left in the table *)
DeletedNothing(map, id) == map

Deleted(map, id) == [k \in DOMAIN map \ {id} |-> map[k]]

(* a response handed to whichever call is in the table, not to the call of its identifier *)
HandleResponseByArrival(payload) ==
    IF ongoings = EmptyMap
    THEN UNCHANGED <<ongoings, calls>>
    ELSE LET id == CHOOSE i \in DOMAIN ongoings : TRUE
         IN /\ ongoings' = Deleted(ongoings, id)
            /\ calls' = [calls EXCEPT ![ongoings[id]] = Respond(@, payload)]

HandleResponse(payload) ==
    IF payload.id \notin DOMAIN ongoings
    THEN UNCHANGED <<ongoings, calls>>
    ELSE /\ ongoings' = Deleted(ongoings, payload.id)
         /\ calls' = [calls EXCEPT ![ongoings[payload.id]] = Respond(@, payload)]

receive(text, isRequest) ==
    /\ Len(receives) < MaxReceives
    /\ LET r == NewReceive(text, isRequest)
           payload == Parse(text)
       IN IF ~IsJSON(text)
          THEN /\ receives' = Append(receives, Reject(r, parseError("Unexpected token")))
               /\ UNCHANGED <<ongoings, calls>>
          ELSE IF validate(payload, isRequest) # ""
          THEN /\ receives' = Append(receives, Reject(r, invalidRequest(validate(payload, isRequest))))
               /\ UNCHANGED <<ongoings, calls>>
          ELSE IF isRequest
          THEN /\ receives' = Append(receives, HandleRequest(r, payload))
               /\ UNCHANGED <<ongoings, calls>>
          ELSE /\ HandleResponse(payload)
               /\ receives' = Append(receives, Resolve(r, Undefined))
    /\ UNCHANGED <<error, handler, generator, nextId, notifies>>

(* the method implementation returns (or its promise fulfils) with result *)
implReturned(k, result) ==
    /\ receives[k].phase = "impl"
    /\ LET r == [receives[k] EXCEPT !.returned = result]
           id == Parse(r.text).id
       IN receives' = [receives EXCEPT ![k] =
                          IF HasId(id) THEN Reply(r, SuccessPayload(id, result))
                          ELSE [Resolve(r, Undefined) EXCEPT !.phase = "done"]]
    /\ UNCHANGED <<error, ongoings, handler, generator, nextId, calls, notifies>>

(* the method implementation throws (or its promise rejects) with err *)
implThrew(k, err) ==
    /\ receives[k].phase = "impl"
    /\ LET r == [receives[k] EXCEPT !.thrown = err]
           id == Parse(r.text).id
       IN receives' = [receives EXCEPT ![k] =
                          IF ~HasId(id) THEN [Reject(r, err) EXCEPT !.phase = "done"]
                          ELSE Reply(r, FailurePayload(err, id))]
    /\ UNCHANGED <<error, ongoings, handler, generator, nextId, calls, notifies>>

(* the transport's promise for a reply settles *)
replySendFulfilled(k) ==
    /\ receives[k].phase = "send"
    /\ receives' = [receives EXCEPT ![k] = [Resolve(@, Undefined) EXCEPT !.phase = "done"]]
    /\ UNCHANGED <<error, ongoings, handler, generator, nextId, calls, notifies>>

replySendRejected(k) ==
    /\ receives[k].phase = "send"
    /\ receives' = [receives EXCEPT ![k] = [Reject(@, TransportError) EXCEPT !.phase = "done"]]
    /\ UNCHANGED <<error, ongoings, handler, generator, nextId, calls, notifies>>

(***************************************************************************)
(* Specifications.  SpecClient is the calling side of an engine (call,     *)
(* the responses it receives, setError), SpecNotify the calling side with  *)
(* notifications, SpecServer the serving side (serve, the requests it      *)
(* receives, the method implementations, the replies, setError),           *)
(* SpecReply the serving side on requests that expect a reply, one of them *)
(* invalid, Spec both sides together on fewer inputs.                      *)
(***************************************************************************)
NextClient ==
    \/ \E m \in Methods, p \in ParamLists : call(m, p)
    \/ \E k \in DOMAIN calls : callSendFulfilled(k)
    \/ \E k \in DOMAIN calls : callSendRejected(k)
    \/ \E e \in {Lost, NoError} : setError(e)
    \/ \E t \in ResponseTexts : receive(t, FALSE)

SpecClient == Init /\ [][NextClient]_vars

NextNotify ==
    \/ \E m \in Methods, p \in ParamLists : call(m, p)
    \/ \E k \in DOMAIN calls : callSendFulfilled(k)
    \/ \E k \in DOMAIN calls : callSendRejected(k)
    \/ \E m \in Methods, p \in ParamLists : notify(m, p)
    \/ \E k \in DOMAIN notifies : notifySendFulfilled(k)
    \/ \E k \in DOMAIN notifies : notifySendRejected(k)
    \/ \E e \in {Lost, NoError} : setError(e)
    \/ \E t \in NotifyResponseTexts : receive(t, FALSE)

SpecNotify == Init /\ [][NextNotify]_vars

NextServer ==
    \/ \E e \in {Lost, NoError} : setError(e)
    \/ \E h \in Handlers : serve(h)
    \/ \E t \in RequestTexts : receive(t, TRUE)
    \/ \E k \in DOMAIN receives, v \in ImplResults : implReturned(k, v)
    \/ \E k \in DOMAIN receives, e \in ImplErrors : implThrew(k, e)
    \/ \E k \in DOMAIN receives : replySendFulfilled(k)
    \/ \E k \in DOMAIN receives : replySendRejected(k)

SpecServer == Init /\ [][NextServer]_vars

NextReply ==
    \/ \E e \in {Lost, NoError} : setError(e)
    \/ \E h \in Handlers : serve(h)
    \/ \E t \in ReplyRequestTexts : receive(t, TRUE)
    \/ \E k \in DOMAIN receives, v \in ImplResults : implReturned(k, v)
    \/ \E k \in DOMAIN receives, e \in ImplErrors : implThrew(k, e)
    \/ \E k \in DOMAIN receives : replySendFulfilled(k)
    \/ \E k \in DOMAIN receives : replySendRejected(k)

SpecReply == Init /\ [][NextReply]_vars

Next ==
    \/ \E m \in Methods, p \in ParamLists : call(m, p)
    \/ \E k \in DOMAIN calls : callSendFulfilled(k)
    \/ \E k \in DOMAIN calls : callSendRejected(k)
    \/ \E m \in Methods, p \in ParamLists : notify(m, p)
    \/ \E k \in DOMAIN notifies : notifySendFulfilled(k)
    \/ \E k \in DOMAIN notifies : notifySendRejected(k)
    \/ \E e \in {Lost, NoError} : setError(e)
    \/ \E h \in Handlers : serve(h)
    \/ receive(RequestText(Num(7), Str("add"), Arr(0)), TRUE)
    \/ receive(SuccessText(Num(0), Num(5)), FALSE)
    \/ \E k \in DOMAIN receives : implReturned(k, Num(5))
    \/ \E k \in DOMAIN receives : implThrew(k, ServerError)
    \/ \E k \in DOMAIN receives : replySendFulfilled(k)
    \/ \E k \in DOMAIN receives : replySendRejected(k)

Spec == Init /\ [][Next]_vars

(***************************************************************************)
(* Properties of the calling side                                          *)
(***************************************************************************)
Last(seq) == seq[Len(seq)]

(* call k holds the entry of its identifier in the correlation table *)
Registered(k) == calls[k].id \in DOMAIN ongoings /\ ongoings[calls[k].id] = k

IsSuccess(t) == IsJSON(t) /\ Parse(t).error.type = "undefined"
IsError(t) == IsJSON(t) /\ Parse(t).error.type = "object"

(* C1, as stated: once the transport has been invoked with the Request      *)
(* envelope of a call, receiving a Response-Success with the identifier of  *)
(* the call resolves the call with the result of the envelope, whenever the *)
(* response is received after the transmission, also while the promise of   *)
(* the transport's send is still pending.                                   *)
C1_ResolvesAnyTimeAfterTransmission ==
    [][\A t \in ResponseTexts : \A k \in DOMAIN calls :
          (/\ receive(t, FALSE)
           /\ IsSuccess(t)
           /\ Parse(t).id = calls[k].id
           /\ calls[k].out # <<>>
           /\ calls[k].state = "pending")
          => (calls'[k].state = "resolved" /\ calls'[k].value = Parse(t).result)]_vars

(* C1, amended: once the promise of the transport's send has fulfilled and  *)
(* the call is registered in the correlation table, receiving a             *)
(* Response-Success with the identifier of the call resolves the call with  *)
(* exactly the result of the envelope and removes the entry; a response     *)
(* received while the promise of the send is still pending is discarded     *)
(* and leaves the call as it was.                                           *)
C1_ResolvesOnceRegistered ==
    [][\A t \in ResponseTexts : \A k \in DOMAIN calls :
          (/\ receive(t, FALSE)
           /\ IsSuccess(t)
           /\ Parse(t).id = calls[k].id
           /\ calls[k].out # <<>>
           /\ calls[k].state = "pending")
          => IF Registered(k)
             THEN /\ calls'[k].state = "resolved"
                  /\ calls'[k].value = Parse(t).result
                  /\ calls[k].id \notin DOMAIN ongoings'
             ELSE /\ calls[k].phase = "sending"
                  /\ calls'[k] = calls[k]
                  /\ ongoings' = ongoings]_vars

C1_Witness ==
    \E k \in DOMAIN calls :
        /\ calls[k].state = "resolved"
        /\ calls[k].value = Num(5)
        /\ \E i \in DOMAIN receives : receives[i].text = SuccessText(calls[k].id, Num(5))

C3_PoisonRejects ==
    /\ [][\A e \in PoisonErrors :
            setError(e) => /\ ongoings' = EmptyMap
                           /\ \A id \in DOMAIN ongoings :
                                 /\ calls'[ongoings[id]].state = "rejected"
                                 /\ calls'[ongoings[id]].err = e]_vars
    /\ [][\A m \in Methods, p \in ParamLists :
            (call(m, p) /\ error # NoError)
            => /\ Last(calls').state = "rejected"
               /\ Last(calls').err = error
               /\ Last(calls').out = <<>>
               /\ ongoings' = ongoings]_vars
    /\ [][\A m \in Methods, p \in ParamLists :
            (notify(m, p) /\ error # NoError)
            => /\ Last(notifies').state = "rejected"
               /\ Last(notifies').err = error
               /\ Last(notifies').out = <<>>
               /\ ongoings' = ongoings]_vars
    /\ [](\A k \in DOMAIN calls : calls[k].out = <<>> => ~Registered(k))

C3_Witness ==
    /\ error = Lost
    /\ ongoings = EmptyMap
    /\ \E k \in DOMAIN calls :
          calls[k].phase = "sent" /\ calls[k].state = "rejected" /\ calls[k].err = Lost
    /\ \E k \in DOMAIN calls :
          calls[k].out = <<>> /\ calls[k].state = "rejected" /\ calls[k].err = Lost
    /\ \E k \in DOMAIN notifies :
          notifies[k].out = <<>> /\ notifies[k].state = "rejected" /\ notifies[k].err = Lost

(* C4: in every reachable state where the engine is poisoned the            *)
(* correlation table is empty.                                              *)
C4_PoisonedTableEmpty == error # NoError => ongoings = EmptyMap

(* C6: notify transmits one envelope without an identifier (none when the  *)
(* engine is poisoned) and leaves the correlation table and every call as   *)
(* they were, as does the settling of its send; no received envelope        *)
(* changes a notification, and no entry of the table has the absent         *)
(* identifier as its key.                                                   *)
C6_NotifyNeverRegisters ==
    /\ [][\A m \in Methods, p \in ParamLists :
            notify(m, p)
            => /\ ongoings' = ongoings
               /\ calls' = calls
               /\ IF error = NoError
                  THEN /\ Len(Last(notifies').out) = 1
                       /\ Last(notifies').out[1].isRequest
                       /\ "id" \notin DOMAIN Last(notifies').out[1].text
                       /\ Parse(Last(notifies').out[1].text).method = m
                       /\ Parse(Last(notifies').out[1].text).params = p
                  ELSE Last(notifies').out = <<>>]_vars
    /\ [][\A k \in DOMAIN notifies :
            (notifySendFulfilled(k) \/ notifySendRejected(k))
            => (ongoings' = ongoings /\ calls' = calls)]_vars
    /\ [][\A t \in NotifyResponseTexts : receive(t, FALSE) => notifies' = notifies]_vars
    /\ [](Undefined \notin DOMAIN ongoings)

C6_Witness ==
    /\ \E k \in DOMAIN notifies : notifies[k].phase = "sent" /\ Len(notifies[k].out) = 1
    /\ \E k \in DOMAIN calls : Registered(k) /\ calls[k].state = "pending"
    /\ \E i \in DOMAIN receives : receives[i].text = SuccessText(Undefined, Num(5))

(***************************************************************************)
(* Properties of the serving side                                          *)
(***************************************************************************)
(* the text of a request names an identifier: the member is there and is not null *)
CarriesId(t) == IsJSON(t) /\ "id" \in DOMAIN t /\ t.id # Null

ValidRequest(r) == r.isRequest /\ IsJSON(r.text) /\ validate(Parse(r.text), TRUE) = ""

(* the envelopes as they are written on the wire *)
ErrorWire(id, code, message, data) ==
    [jsonrpc |-> Str("2.0"), id |-> id,
     error |-> IF data = Undefined
               THEN [code |-> Num(code), message |-> Str(message)]
               ELSE [code |-> Num(code), message |-> Str(message), data |-> data]]
SuccessWire(id, result) ==
    IF result = Undefined
    THEN [jsonrpc |-> Str("2.0"), id |-> id]
    ELSE [jsonrpc |-> Str("2.0"), id |-> id, result |-> result]
Sent(text) == [text |-> text, isRequest |-> FALSE]

(* receive rejected by the poisoned engine without anything being sent *)
RefusedByPoison(r) == r.out = <<>> /\ r.state = "rejected" /\ r.err \in PoisonErrors

(* C5: while the engine is poisoned no step invokes the transport, and a    *)
(* reply that is due while the engine is poisoned (for a request received   *)
(* while poisoned, or whose implementation completes while poisoned) makes  *)
(* receive fail with the poisoning error.                                   *)
C5_NoSendWhilePoisoned ==
    /\ [][error # NoError
          => /\ \A k \in DOMAIN calls' :
                   calls'[k].out = IF k \in DOMAIN calls THEN calls[k].out ELSE <<>>
             /\ \A k \in DOMAIN notifies' :
                   notifies'[k].out = IF k \in DOMAIN notifies THEN notifies[k].out ELSE <<>>
             /\ \A k \in DOMAIN receives' :
                   receives'[k].out = IF k \in DOMAIN receives THEN receives[k].out ELSE <<>>]_vars
    /\ [][\A k \in DOMAIN receives :
            (/\ error # NoError
             /\ receives[k].phase = "impl"
             /\ receives'[k].phase # "impl"
             /\ CarriesId(receives[k].text))
            => (receives'[k].state = "rejected" /\ receives'[k].err = error)]_vars
    /\ [][\A t \in RequestTexts :
            (/\ receive(t, TRUE)
             /\ error # NoError
             /\ ValidRequest(Last(receives'))
             /\ CarriesId(t)
             /\ ~Last(receives').impl)
            => (Last(receives').state = "rejected" /\ Last(receives').err = error)]_vars

C5_Witness ==
    /\ error = Lost
    /\ \E k \in DOMAIN receives :
          /\ CarriesId(receives[k].text)
          /\ receives[k].impl
          /\ receives[k].returned = Num(5)
          /\ receives[k].phase = "done"
          /\ RefusedByPoison(receives[k])

(* C7, as stated: a valid request whose method has no implementation is     *)
(* answered, when it carries an identifier, by exactly one message, the     *)
(* Response-Error -32601 'Method not found' with that identifier, and       *)
(* receive does not fail; without an identifier nothing is sent and receive *)
(* fails with the Method-not-found error.                                   *)
C7_NotFoundAlwaysAnswered ==
    \A k \in DOMAIN receives :
        LET r == receives[k] IN
        (ValidRequest(r) /\ ~r.impl)
        => IF CarriesId(r.text)
           THEN /\ r.out = <<Sent(ErrorWire(r.text.id, -32601, "Method not found", Undefined))>>
                /\ r.state # "rejected"
           ELSE /\ r.out = <<>>
                /\ r.state = "rejected"
                /\ r.err = RpcError("Method not found", -32601, Undefined)

(* C7, amended: with an identifier and the engine not poisoned, exactly one *)
(* message is sent, the Response-Error -32601 'Method not found' with that  *)
(* identifier, and receive fails only when the transport's send of it       *)
(* rejects, with the transport's error; with the engine poisoned nothing is *)
(* sent and receive fails with the poisoning error.  Without an identifier  *)
(* nothing is sent and receive fails with the Method-not-found error.       *)
C7_NotFoundAnsweredWhenHealthy ==
    /\ [](\A k \in DOMAIN receives :
            LET r == receives[k] IN
            (ValidRequest(r) /\ ~r.impl)
            => IF CarriesId(r.text)
               THEN \/ /\ r.out = <<Sent(ErrorWire(r.text.id, -32601, "Method not found", Undefined))>>
                       /\ r.state = "rejected" => r.err = TransportError
                    \/ RefusedByPoison(r)
               ELSE /\ r.out = <<>>
                    /\ r.state = "rejected"
                    /\ r.err = RpcError("Method not found", -32601, Undefined))
    /\ [][\A t \in RequestTexts :
            (/\ receive(t, TRUE)
             /\ ValidRequest(Last(receives'))
             /\ ~Last(receives').impl
             /\ CarriesId(t))
            => IF error = NoError
               THEN Len(Last(receives').out) = 1 /\ Last(receives').state = "pending"
               ELSE RefusedByPoison(Last(receives')) /\ Last(receives').err = error]_vars

C7_Witness ==
    /\ handler = [installed |-> TRUE, methods |-> {}]
    /\ \E k \in DOMAIN receives :
          /\ receives[k].text = RequestText(Num(7), Str("add"), Arr(0))
          /\ ~receives[k].impl
          /\ receives[k].out = <<Sent(ErrorWire(Num(7), -32601, "Method not found", Undefined))>>
          /\ receives[k].state = "resolved"

(* the implementation of the request has completed, successfully or with an exception *)
ImplReturned(r) == r.impl /\ r.phase # "impl" /\ r.thrown = NoError
ImplThrew(r) == r.impl /\ r.thrown # NoError

(* C8, as stated: when the implementation completes successfully, a request *)
(* with an identifier is answered by exactly one message, the               *)
(* Response-Success with that identifier and the returned value, sent with  *)
(* isRequest = false and not before the implementation has completed; a     *)
(* request without an identifier is not answered.                           *)
C8_SuccessAlwaysAnswered ==
    \A k \in DOMAIN receives :
        LET r == receives[k] IN
        /\ r.phase = "impl" => r.out = <<>>
        /\ ImplReturned(r)
           => IF CarriesId(r.text)
              THEN r.out = <<Sent(SuccessWire(r.text.id, r.returned))>>
              ELSE r.out = <<>>

(* C8, amended: the same, provided the engine is not poisoned at the moment *)
(* the implementation completes; if it is, nothing is sent and receive      *)
(* rejects with the poisoning error.                                        *)
C8_SuccessAnsweredWhenHealthy ==
    /\ [](\A k \in DOMAIN receives :
            LET r == receives[k] IN
            /\ r.phase = "impl" => r.out = <<>>
            /\ ImplReturned(r)
               => IF CarriesId(r.text)
                  THEN \/ r.out = <<Sent(SuccessWire(r.text.id, r.returned))>>
                       \/ RefusedByPoison(r)
                  ELSE r.out = <<>> /\ r.state = "resolved")
    /\ [][\A k \in DOMAIN receives : \A v \in ImplResults :
            (implReturned(k, v) /\ CarriesId(receives[k].text))
            => IF error = NoError
               THEN receives'[k].out = <<Sent(SuccessWire(receives[k].text.id, v))>>
               ELSE RefusedByPoison(receives'[k]) /\ receives'[k].err = error]_vars

C8_Witness ==
    \E k \in DOMAIN receives :
        /\ receives[k].text = RequestText(Num(7), Str("add"), Arr(0))
        /\ receives[k].returned = Num(5)
        /\ receives[k].out = <<Sent(SuccessWire(Num(7), Num(5)))>>
        /\ receives[k].state = "resolved"

(* the Response-Error that answers the exception err of an implementation *)
AnswersFailure(text, id, err) ==
    /\ "result" \notin DOMAIN text
    /\ IF err.class = "JSONRPC.Error"
       THEN text = ErrorWire(id, err.code, err.message, err.data)
       ELSE /\ Parse(text).id = id
            /\ Parse(text).error.type = "object"
            /\ Parse(text).error.code = Num(-32603)

(* C9, as stated: when the implementation fails, a request with an          *)
(* identifier is answered by exactly one Response-Error with that           *)
(* identifier, with the code, message and data of a JSONRPC.Error and with  *)
(* code -32603 for any other exception, and by no Response-Success; without *)
(* an identifier nothing is sent and receive fails with the exception.      *)
C9_FailureAlwaysAnswered ==
    \A k \in DOMAIN receives :
        LET r == receives[k] IN
        ImplThrew(r)
        => IF CarriesId(r.text)
           THEN Len(r.out) = 1 /\ ~r.out[1].isRequest
                /\ AnswersFailure(r.out[1].text, r.text.id, r.thrown)
           ELSE r.out = <<>> /\ r.state = "rejected" /\ r.err = r.thrown

(* C9, amended: the same, provided the engine is not poisoned at the moment *)
(* the implementation fails; if it is, nothing is sent and receive rejects  *)
(* with the poisoning error.                                                *)
C9_FailureAnsweredWhenHealthy ==
    /\ [](\A k \in DOMAIN receives :
            LET r == receives[k] IN
            ImplThrew(r)
            => IF CarriesId(r.text)
               THEN \/ Len(r.out) = 1 /\ ~r.out[1].isRequest
                       /\ AnswersFailure(r.out[1].text, r.text.id, r.thrown)
                    \/ RefusedByPoison(r)
               ELSE r.out = <<>> /\ r.state = "rejected" /\ r.err = r.thrown)
    /\ [][\A k \in DOMAIN receives : \A e \in ImplErrors :
            (implThrew(k, e) /\ CarriesId(receives[k].text))
            => IF error = NoError
               THEN Len(receives'[k].out) = 1 /\ receives'[k].state = "pending"
               ELSE RefusedByPoison(receives'[k]) /\ receives'[k].err = error]_vars

C9_Witness ==
    /\ \E k \in DOMAIN receives :
          /\ receives[k].thrown = ServerError
          /\ receives[k].out = <<Sent(ErrorWire(Num(7), 1, "Server error: bad", Num(9)))>>
    /\ \E k \in DOMAIN receives :
          /\ receives[k].thrown = PlainError("oops")
          /\ receives[k].out = <<Sent(ErrorWire(Num(7), -32603, "Internal error: oops", Undefined))>>

InvalidRequestTexts ==
    {Stringify(MkPayload(Str("1.0"), Num(0), Str("add"), Arr(0), Undefined, NoErrorObject)),
     RequestText(Num(0), Str("add"), Num(3))}
InvalidResponseTexts ==
    {Stringify(MkPayload(Undefined, Num(0), Undefined, Undefined, Num(5), NoErrorObject)),
     Stringify(MkPayload(Str("2.0"), Num(0), Undefined, Undefined, Undefined,
                         ErrorObject(Str("-5"), Str("boom"), Undefined)))}

NextClassify ==
    \/ \E m \in Methods, p \in ParamLists : call(m, p)
    \/ \E k \in DOMAIN calls : callSendFulfilled(k)
    \/ \E h \in Handlers : serve(h)
    \/ \E t \in InvalidRequestTexts \cup {Garbage, RequestText(Num(0), Str("add"), Arr(0))} :
          receive(t, TRUE)
    \/ \E t \in InvalidResponseTexts \cup {Garbage, SuccessText(Num(0), Num(5))} :
          receive(t, FALSE)
    \/ \E k \in DOMAIN receives : implReturned(k, Num(5))
    \/ \E k \in DOMAIN receives : replySendFulfilled(k)

SpecClassify == Init /\ [][NextClassify]_vars

(* receive has failed with an error of the code, before any dispatch *)
FailedBeforeDispatch(r, code) ==
    /\ r.state = "rejected"
    /\ r.err.class = "JSONRPC.Error"
    /\ r.err.code = code
    /\ ~r.impl
    /\ r.phase = "done"
    /\ r.out = <<>>

(* C11: receive of a text that is not JSON fails with a Parse error         *)
(* (-32700), receive of JSON that fails the validation of the stated        *)
(* direction fails with an Invalid Request error (-32600); in both cases no *)
(* method implementation is invoked, nothing is sent, and the correlation   *)
(* table and every call are left as they were.                              *)
C11_ClassifiedBeforeDispatch ==
    [][\A isRequest \in BOOLEAN :
          /\ receive(Garbage, isRequest)
             => /\ FailedBeforeDispatch(Last(receives'), -32700)
                /\ ongoings' = ongoings /\ calls' = calls
          /\ \A t \in (IF isRequest THEN InvalidRequestTexts ELSE InvalidResponseTexts) :
                receive(t, isRequest)
                => /\ FailedBeforeDispatch(Last(receives'), -32600)
                   /\ ongoings' = ongoings /\ calls' = calls]_vars

C11_Witness ==
    /\ handler = [installed |-> TRUE, methods |-> Methods]
    /\ \E k \in DOMAIN calls : Registered(k) /\ calls[k].id = Num(0) /\ calls[k].state = "pending"
    /\ Len(receives) = 2
    /\ receives[1].text = Garbage /\ receives[1].isRequest /\ receives[1].err.code = -32700
    /\ receives[2].text \in InvalidResponseTexts /\ receives[2].err.code = -32600

(***************************************************************************)
(* Responses that match no entry                                           *)
(***************************************************************************)
StaleResponseTexts ==
    {SuccessText(Num(0), Num(5)), SuccessText(Null, Num(5)), SuccessText(Undefined, Num(5)),
     ErrorText(Num(1), -5, "boom")}

NextStale ==
    \/ \E m \in Methods, p \in ParamLists : call(m, p)
    \/ \E k \in DOMAIN calls : callSendFulfilled(k)
    \/ \E k \in DOMAIN calls : callSendRejected(k)
    \/ \E e \in {Lost, NoError} : setError(e)
    \/ \E t \in StaleResponseTexts : receive(t, FALSE)

SpecStale == Init /\ [][NextStale]_vars

(* C12: receive(text, false) of a valid response whose identifier is not a  *)
(* key of the correlation table completes without error and changes         *)
(* nothing: the table, every call, every notification and every other       *)
(* receive stay as they were, and nothing is sent.                          *)
C12_UnmatchedResponseIgnored ==
    [][\A t \in StaleResponseTexts :
          (receive(t, FALSE) /\ Parse(t).id \notin DOMAIN ongoings)
          => /\ Last(receives').state = "resolved"
             /\ Last(receives').out = <<>>
             /\ ongoings' = ongoings
             /\ calls' = calls
             /\ notifies' = notifies
             /\ \A i \in DOMAIN receives : receives'[i] = receives[i]]_vars

C12_Witness ==
    /\ \E k \in DOMAIN calls : Registered(k) /\ calls[k].state = "pending"
    /\ Len(receives) = 2
    /\ receives[1].text = SuccessText(Null, Num(5)) /\ receives[1].state = "resolved"
    /\ receives[2].text = ErrorText(Num(1), -5, "boom") /\ receives[2].state = "resolved"

(* C13: when the transport's send rejects for the Request envelope of a     *)
(* call, the call is rejected with the transport's error and the table is   *)
(* left as it was; a call whose send has failed or was refused never has an *)
(* entry, and every entry of the table belongs to a call whose send has     *)
(* fulfilled.                                                               *)
C13_FailedSendNeverRegisters ==
    /\ [][\A k \in DOMAIN calls :
            callSendRejected(k)
            => /\ calls'[k].state = "rejected"
               /\ calls'[k].err = TransportError
               /\ ongoings' = ongoings]_vars
    /\ [](\A k \in DOMAIN calls :
            calls[k].phase \in {"failed", "sending"} => calls[k].id \notin DOMAIN ongoings)
    /\ [](\A id \in DOMAIN ongoings :
            /\ ongoings[id] \in DOMAIN calls
            /\ calls[ongoings[id]].id = id
            /\ calls[ongoings[id]].phase = "sent")

C13_Witness ==
    /\ \E k \in DOMAIN calls :
          /\ calls[k].phase = "failed"
          /\ Len(calls[k].out) = 1
          /\ calls[k].state = "rejected"
          /\ calls[k].err = TransportError
    /\ \E k \in DOMAIN calls : Registered(k)

(* C20: a settled call never changes again and has no entry in the table;   *)
(* a response whose identifier is that of a settled call changes neither    *)
(* the calls nor the table.                                                 *)
C20_SettledOnce ==
    /\ [][\A k \in DOMAIN calls :
            calls[k].state # "pending" => calls'[k] = calls[k]]_vars
    /\ [](\A k \in DOMAIN calls : calls[k].state # "pending" => ~Registered(k))
    /\ [][\A t \in ResponseTexts :
            (/\ receive(t, FALSE)
             /\ \E k \in DOMAIN calls : calls[k].id = Parse(t).id /\ calls[k].state # "pending")
            => /\ ongoings' = ongoings
               /\ calls' = calls
               /\ Last(receives').state = "resolved"]_vars

C20_Witness ==
    \E k \in DOMAIN calls :
        /\ calls[k].state = "resolved"
        /\ calls[k].value = Num(5)
        /\ Len(receives) = 2
        /\ receives[1].text = SuccessText(calls[k].id, Num(5))
        /\ receives[2].text = ErrorText(calls[k].id, -5, "boom")

(***************************************************************************)
(* Validation of decoded values in both directions                         *)
(***************************************************************************)
(* a JSON object with a member the scheme does not know *)
WithExtra(text) == [k \in DOMAIN text \cup {"extra"} |-> IF k = "extra" THEN Num(1) ELSE text[k]]

(* one valid request and its deviations, one member at a time *)
ValidateTexts ==
    {RequestText(Num(1), Str("add"), Arr(0)),
     Stringify(MkPayload(Str("1.0"), Num(1), Str("add"), Arr(0), Undefined, NoErrorObject)),
     Stringify(MkPayload(Undefined, Num(1), Str("add"), Arr(0), Undefined, NoErrorObject)),
     RequestText(Undefined, Str("add"), Arr(0)),
     RequestText(Null, Str("add"), Arr(0)),
     RequestText(Str("a"), Str("add"), Arr(0)),
     RequestText(Bool(1), Str("add"), Arr(0)),
     RequestText(Num(1), Undefined, Arr(0)),
     RequestText(Num(1), Str("add"), Undefined),
     WithExtra(RequestText(Num(1), Str("add"), Arr(0)))}

(* the Request envelopes of call(method, params), serialized *)
RoundTripMethods == {Str("add"), Str(""), Num(3)}
RoundTripParams == {Arr(0), Num(3), Undefined}
RoundTripText(method, params) == Stringify(RequestPayload(Num(1), method, params))
RoundTripTexts == {RoundTripText(m, p) : m \in RoundTripMethods, p \in RoundTripParams}

NextValidate ==
    \/ \E t \in ValidateTexts \cup RoundTripTexts : receive(t, TRUE)
    \/ \E t \in ValidateTexts \cup RoundTripTexts : receive(t, FALSE)
    \/ \E k \in DOMAIN receives : replySendFulfilled(k)

SpecValidate == Init /\ [][NextValidate]_vars

(* receive found the value valid for its direction and went on to dispatch it *)
Validated(r) == ~FailedBeforeDispatch(r, -32600)

(* the values C14 calls valid in the request direction *)
C14_Acceptable(text) ==
    /\ Member(text, "jsonrpc") = Str("2.0")
    /\ TypeOf(Member(text, "id")) \in {"undefined", "null", "number", "string"}
    /\ TypeOf(Member(text, "method")) = "string" /\ Len(Member(text, "method")[3]) > 0
    /\ TypeOf(Member(text, "params")) \in {"undefined", "array"}

(* C14: a value received in the request direction passes validation exactly *)
(* when its protocol tag is '2.0', its identifier is absent, null, a number *)
(* or a string, its method is a non-empty string and its params is absent   *)
(* or an array; a member the scheme does not know changes nothing.          *)
C14_RequestValidation ==
    \A k \in DOMAIN receives :
        receives[k].isRequest => (Validated(receives[k]) <=> C14_Acceptable(receives[k].text))

(* C15, as stated: a serialized Request envelope passes request-direction   *)
(* validation if and only if its method is a non-empty string and its       *)
(* params is an array, and fails response-direction validation.             *)
C15_RoundTripResponseFails ==
    \A k \in DOMAIN receives :
        \A m \in RoundTripMethods, p \in RoundTripParams :
            receives[k].text = RoundTripText(m, p)
            => IF receives[k].isRequest
               THEN Validated(receives[k])
                    <=> (TypeOf(m) = "string" /\ Len(m[3]) > 0 /\ TypeOf(p) = "array")
               ELSE ~Validated(receives[k])

(* C15, amended: a serialized Request envelope with a method member passes  *)
(* request-direction validation if and only if its method is a non-empty    *)
(* string and its params is an array, and passes response-direction         *)
(* validation whatever its method and params are.                           *)
C15_RoundTripResponsePasses ==
    \A k \in DOMAIN receives :
        \A m \in RoundTripMethods, p \in RoundTripParams :
            receives[k].text = RoundTripText(m, p)
            => IF receives[k].isRequest
               THEN Validated(receives[k])
                    <=> (TypeOf(m) = "string" /\ Len(m[3]) > 0 /\ TypeOf(p) = "array")
               ELSE receives[k].state = "resolved"

C15_Witness ==
    /\ Len(receives) = 2
    /\ receives[1].text = RoundTripText(Str(""), Arr(0))
    /\ receives[1].isRequest /\ ~Validated(receives[1])
    /\ receives[2].text = receives[1].text
    /\ ~receives[2].isRequest /\ receives[2].state = "resolved"

RecoverRequestText == RequestText(Num(7), Str("add"), Arr(0))
RecoverResponseText == SuccessText(Num(1), Num(5))

NextRecover ==
    \/ \E m \in Methods, p \in ParamLists : call(m, p)
    \/ \E k \in DOMAIN calls : callSendFulfilled(k)
    \/ \E m \in Methods, p \in ParamLists : notify(m, p)
    \/ \E e \in PoisonErrors \cup {NoError} : setError(e)
    \/ receive(RecoverResponseText, FALSE)
    \/ /\ Cardinality({k \in DOMAIN receives : receives[k].isRequest}) < MaxRequests
       /\ receive(RecoverRequestText, TRUE)

SpecRecover == Init /\ [][NextRecover]_vars

(* C18: setError(null) makes the engine healthy, settles no call and leaves *)
(* the table alone; in a healthy engine, also one that was poisoned before, *)
(* call, notify and the answer to a request invoke the transport and a call *)
(* whose send fulfils is registered; setError(e2) on an engine poisoned     *)
(* with e1 makes e2 the error with which later sends fail.                  *)
C18_RecoversOnNull ==
    /\ [][setError(NoError)
          => /\ error' = NoError
             /\ calls' = calls
             /\ ongoings' = ongoings
             /\ notifies' = notifies
             /\ receives' = receives]_vars
    /\ [][\A e \in PoisonErrors : setError(e) => error' = e]_vars
    /\ [][\A m \in Methods, p \in ParamLists :
            /\ call(m, p)
               => IF error = NoError
                  THEN Last(calls').phase = "sending" /\ Len(Last(calls').out) = 1
                  ELSE /\ Last(calls').state = "rejected" /\ Last(calls').err = error
                       /\ Last(calls').out = <<>>
            /\ notify(m, p)
               => IF error = NoError
                  THEN Last(notifies').phase = "sending" /\ Len(Last(notifies').out) = 1
                  ELSE /\ Last(notifies').state = "rejected" /\ Last(notifies').err = error
                       /\ Last(notifies').out = <<>>]_vars
    /\ [][receive(RecoverRequestText, TRUE)
          => IF error = NoError
             THEN Last(receives').phase = "send" /\ Len(Last(receives').out) = 1
             ELSE /\ Last(receives').state = "rejected" /\ Last(receives').err = error
                  /\ Last(receives').out = <<>>]_vars
    /\ [][\A k \in DOMAIN calls :
            callSendFulfilled(k)
            => calls[k].id \in DOMAIN ongoings' /\ ongoings'[calls[k].id] = k]_vars

C18_Witness ==
    /\ error = NoError
    /\ Len(calls) = 2
    /\ calls[1].state = "rejected" /\ calls[1].err = Lost /\ calls[1].out = <<>>
    /\ Len(notifies) = 1
    /\ notifies[1].state = "rejected" /\ notifies[1].err = Closed /\ notifies[1].out = <<>>
    /\ calls[2].id = Num(1) /\ Len(calls[2].out) = 1
    /\ calls[2].state = "resolved" /\ calls[2].value = Num(5)

(***************************************************************************)
(* The identifier 0 on both sides                                          *)
(***************************************************************************)
ZeroRequestTexts == {RequestText(Num(0), Str("add"), Arr(0)), RequestText(Num(7), Str("add"), Arr(0))}
ZeroResponseText == SuccessText(Num(0), Num(5))

NextZero ==
    \/ \E m \in Methods, p \in ParamLists : call(m, p)
    \/ \E k \in DOMAIN calls : callSendFulfilled(k)
    \/ serve([installed |-> TRUE, methods |-> Methods])
    \/ setError(Lost)
    \/ \E t \in ZeroRequestTexts : receive(t, TRUE)
    \/ receive(ZeroResponseText, FALSE)
    \/ \E k \in DOMAIN receives : implReturned(k, Num(5))
    \/ \E k \in DOMAIN receives : implThrew(k, ServerError)
    \/ \E k \in DOMAIN receives : replySendFulfilled(k)

SpecZero == Init /\ [][NextZero]_vars

(* the one message that answers the request r with the identifier id, or    *)
(* the refusal of the poisoned engine                                       *)
AnsweredWithId(r, id) ==
    \/ RefusedByPoison(r)
    \/ /\ Len(r.out) = 1
       /\ IF ~r.impl THEN r.out[1] = Sent(ErrorWire(id, -32601, "Method not found", Undefined))
          ELSE IF ImplThrew(r) THEN ~r.out[1].isRequest /\ AnswersFailure(r.out[1].text, id, r.thrown)
          ELSE r.out[1] = Sent(SuccessWire(id, r.returned))

(* C16: a request with the identifier 0 is answered as a request with the   *)
(* identifier 7 is, by the Response-Success or Response-Error that carries  *)
(* its identifier, and is never treated as a notification; the first call   *)
(* of the engine has the identifier 0, is registered under it when its send *)
(* fulfils and is settled by the response with the identifier 0.            *)
C16_ZeroIsAnIdentifier ==
    /\ [](\A k \in DOMAIN receives :
            LET r == receives[k] IN
            (r.isRequest /\ r.phase # "impl") => AnsweredWithId(r, r.text.id))
    /\ [][\A t \in ZeroRequestTexts :
            (receive(t, TRUE) /\ error = NoError /\ ~Last(receives').impl)
            => Len(Last(receives').out) = 1]_vars
    /\ [][\A k \in DOMAIN receives :
            (receives[k].phase = "impl" /\ receives'[k].phase # "impl" /\ error = NoError)
            => Len(receives'[k].out) = 1]_vars
    /\ [](Len(calls) > 0 => calls[1].id = Num(0))
    /\ [][(1 \in DOMAIN calls /\ callSendFulfilled(1)) => (Num(0) \in DOMAIN ongoings' /\ ongoings'[Num(0)] = 1)]_vars
    /\ [][(receive(ZeroResponseText, FALSE) /\ Num(0) \in DOMAIN ongoings)
          => /\ calls'[1].state = "resolved" /\ calls'[1].value = Num(5)
             /\ Num(0) \notin DOMAIN ongoings']_vars

C16_Witness ==
    /\ Len(calls) > 0 /\ calls[1].state = "resolved" /\ calls[1].value = Num(5)
    /\ Len(receives) = 2
    /\ receives[1].text = RequestText(Num(0), Str("add"), Arr(0))
    /\ receives[1].isRequest
    /\ receives[1].out = <<Sent(SuccessWire(Num(0), Num(5)))>>
    /\ receives[1].state = "resolved"
    /\ receives[2].text = ZeroResponseText

(***************************************************************************)
(* Responses in any order, interleaved with suspended requests             *)
(***************************************************************************)
MatchResponseTexts ==
    {SuccessText(Num(0), Num(5)), SuccessText(Num(1), Num(6)), ErrorText(Num(0), -5, "boom")}
MatchRequestText == RequestText(Num(7), Str("add"), Arr(0))

NextMatch ==
    \/ \E m \in Methods, p \in ParamLists : call(m, p)
    \/ \E k \in DOMAIN calls : callSendFulfilled(k)
    \/ serve([installed |-> TRUE, methods |-> Methods])
    \/ receive(MatchRequestText, TRUE)
    \/ \E t \in MatchResponseTexts : receive(t, FALSE)
    \/ \E k \in DOMAIN receives : implReturned(k, Num(5))
    \/ \E k \in DOMAIN receives : replySendFulfilled(k)

SpecMatch == Init /\ [][NextMatch]_vars

(* the call c settled as the response text says *)
SettledBy(c, t) ==
    IF IsSuccess(t)
    THEN c.state = "resolved" /\ c.value = Parse(t).result
    ELSE /\ c.state = "rejected"
         /\ c.err = RpcError(Parse(t).error.message[3], Parse(t).error.code[2], Parse(t).error.data)

(* C19: receiving a response settles the registered call whose identifier   *)
(* the response carries, with the result or error of that response, and     *)
(* removes its entry; every other call and every other entry is left as it  *)
(* was, in whatever order the responses arrive; a step of a request (its    *)
(* receipt, the completion of its implementation, the completion of its     *)
(* reply) changes no call and no entry.                                     *)
C19_MatchedByIdentifier ==
    /\ [][\A t \in MatchResponseTexts :
            receive(t, FALSE)
            => \A k \in DOMAIN calls :
                  IF Registered(k) /\ calls[k].id = Parse(t).id
                  THEN /\ SettledBy(calls'[k], t)
                       /\ calls[k].id \notin DOMAIN ongoings'
                  ELSE /\ calls'[k] = calls[k]
                       /\ Registered(k)
                          => (calls[k].id \in DOMAIN ongoings' /\ ongoings'[calls[k].id] = k)]_vars
    /\ [][(\/ receive(MatchRequestText, TRUE)
           \/ \E k \in DOMAIN receives : implReturned(k, Num(5)) \/ replySendFulfilled(k))
          => (calls' = calls /\ ongoings' = ongoings)]_vars

C19_Witness ==
    /\ Len(calls) = 2
    /\ Registered(1) /\ calls[1].state = "pending"
    /\ calls[2].id = Num(1) /\ calls[2].state = "resolved" /\ calls[2].value = Num(6)
    /\ Len(receives) = 2
    /\ receives[1].isRequest /\ receives[1].phase = "impl"
    /\ receives[2].text = SuccessText(Num(1), Num(6))

(***************************************************************************)
(* An injected generator that repeats identifiers                          *)
(***************************************************************************)
(* the state after new JSONRPC(send, generateId) *)
InitInjected ==
    /\ error = NoError
    /\ ongoings = EmptyMap
    /\ handler = NoHandler
    /\ generator = "injected"
    /\ nextId = 0
    /\ calls = <<>>
    /\ notifies = <<>>
    /\ receives = <<>>

CollideResponseTexts == {SuccessText(Num(0), Num(5)), ErrorText(Num(1), -5, "boom")}

NextCollide ==
    \/ \E m \in Methods, p \in ParamLists : call(m, p)
    \/ \E k \in DOMAIN calls : callSendFulfilled(k)
    \/ \E k \in DOMAIN calls : callSendRejected(k)
    \/ \E e \in {Lost, NoError} : setError(e)
    \/ \E t \in CollideResponseTexts : receive(t, FALSE)

SpecCollide == InitInjected /\ [][NextCollide]_vars

(* the call k has lost its entry to a call with the same identifier: it was *)
(* registered, is still pending and the table does not hold it              *)
Overwritten(k) == calls[k].phase = "sent" /\ calls[k].state = "pending" /\ ~Registered(k)

(* C21: when the send of a call fulfils, the call takes the entry of its    *)
(* identifier, also from a pending call that holds it, and that call is     *)
(* left as it is; a response settles only the call that holds the entry of  *)
(* its identifier; a call that has lost its entry stays pending for ever,   *)
(* whatever is received and whatever error is set.                          *)
C21_CollisionOverwrites ==
    /\ [][\A k \in DOMAIN calls :
            callSendFulfilled(k)
            => /\ ongoings'[calls[k].id] = k
               /\ \A j \in DOMAIN calls \ {k} : calls'[j] = calls[j]
               /\ calls'[k].state = calls[k].state]_vars
    /\ [][\A t \in CollideResponseTexts :
            (receive(t, FALSE) /\ Parse(t).id \in DOMAIN ongoings)
            => /\ SettledBy(calls'[ongoings[Parse(t).id]], t)
               /\ \A j \in DOMAIN calls \ {ongoings[Parse(t).id]} : calls'[j] = calls[j]]_vars
    /\ [][\A k \in DOMAIN calls :
            Overwritten(k)
            => /\ calls'[k] = calls[k]
               /\ ~(calls[k].id \in DOMAIN ongoings' /\ ongoings'[calls[k].id] = k)]_vars

C21_Witness ==
    /\ Len(calls) = 2
    /\ calls[1].id = Num(0) /\ calls[2].id = Num(0)
    /\ Overwritten(1)
    /\ calls[2].state = "resolved" /\ calls[2].value = Num(5)
    /\ error = Lost
    /\ \E i \in DOMAIN receives : receives[i].text = SuccessText(Num(0), Num(5))

====
